---- MODULE Spec2Model ----
(***************************************************************************)
(* A model of discord/voice_client.py: the VoiceClient handshake state     *)
(* machine, the supervisory poll loop, the SSRC registry and the RTP       *)
(* packet codec with its three encryption modes.                           *)
(***************************************************************************)
EXTENDS Integers, Sequences, FiniteSets, TLC

VARIABLES
    \* --- packet counters and codec (VoiceClient.__init__, lines 384-391)
    sequence,          \* self.sequence, a wide integer <<hi, lo>>
    timestamp,         \* self.timestamp, a wide integer <<hi, lo>>
    lite_nonce,        \* self._lite_nonce, a wide integer <<hi, lo>>
    mode,              \* self.mode: None or one of supported_modes
    secret_key,        \* self.secret_key: None or a key
    wire,              \* what the last send_audio_packet did: the datagram handed to sendto
    opened,            \* what the receiving side got from _decrypt_<mode> for the datagram
    source,            \* the Opus frame the player hands to send_audio_packet
    nsent,             \* history: number of send_audio_packet calls made so far
    \* --- SSRC registry (lines 393-394)
    idrcs,             \* self.idrcs: user id -> ssrc
    ssids,             \* self.ssids: ssrc -> user id
    lastSet,           \* history: the _set_ssrc calls made so far, oldest first
    \* --- session and media path (lines 372-392, 426, 450-467)
    token,             \* self.token
    endpoint,          \* self.endpoint: the host of the assigned voice server
    endpoint_token,    \* history: the token of the notification self.endpoint was taken from
    server_id,         \* self.server_id
    session_id,        \* self.session_id
    channel,           \* self.channel
    endpoint_ip,       \* self.endpoint_ip: the media address the control handshake delivered
    socket,            \* self.socket: [state, id]
    nsockets,          \* number of UDP sockets created so far
    ws,                \* self.ws, the control connection: [state, code]
    \* --- flags (lines 378-382, 385, 390)
    connected,                 \* self._connected
    handshaking,               \* self._handshaking
    potentially_reconnecting,  \* self._potentially_reconnecting
    voice_state_complete,      \* self._voice_state_complete
    voice_server_complete,     \* self._voice_server_complete
    connections,               \* self._connections
    runner,                    \* self._runner
    registered,        \* the client is in the library's cache of voice clients (until cleanup())
    \* --- the coroutines: connect() called by the owner, and the poll task
    pc,                \* where each coroutine is suspended
    attempt,           \* connect(): the loop index i
    recon,             \* connect(): the reconnect argument
    pollReconnect,     \* poll_voice_ws(): the reconnect argument
    \* --- history
    last,              \* the last step: the operation, its argument, the calls it made
    seen,              \* the notifications delivered since the last prepare_handshake
    opens              \* connect_websocket calls of the handshake attempt begun by the last prepare_handshake

codecVars == <<sequence, timestamp, lite_nonce, mode, secret_key, wire, opened, source, nsent>>
ssrcVars == <<idrcs, ssids, lastSet>>
sessionVars == <<token, endpoint, endpoint_token, server_id, session_id, channel>>
mediaVars == <<endpoint_ip, socket, nsockets, ws>>
flagVars == <<connected, handshaking, potentially_reconnecting,
              voice_state_complete, voice_server_complete>>
taskVars == <<connections, runner, registered, pc, attempt, recon, pollReconnect>>
historyVars == <<last, seen, opens>>
connVars == <<sessionVars, mediaVars, flagVars, taskVars, historyVars>>
vars == <<codecVars, ssrcVars, connVars>>

None == "None"

-----------------------------------------------------------------------------
(* Bounds of the model.                                                    *)

\* longest audio payload handed to send_audio_packet, in bytes
MaxLen == 5
\* send_audio_packet calls made after the starting point of a run
MaxSends == 2
\* _set_ssrc calls in a run of the registry
MaxSets == 3
\* handshake attempts (prepare_handshake calls) in a run
MaxConnections == 6
\* UDP sockets created in a run
MaxSockets == 5

-----------------------------------------------------------------------------
(* Wide integers.  Python integers are unbounded and the counters run up   *)
(* to 2^32 - 1, so a value n is kept as <<n \div 65536, n % 65536>>.       *)

Wide(n) == <<n \div 65536, n % 65536>>

WAdd(a, v) == <<a[1] + ((a[2] + v) \div 65536), (a[2] + v) % 65536>>

WGt(a, b) == \/ a[1] > b[1]
             \/ a[1] = b[1] /\ a[2] > b[2]

\* (n * k) mod 2^32 as a wide integer, for n < 2^31 and k < 2^15
WMulMod32(n, k) ==
    LET nh == n \div 65536
        nl == n % 65536
        low == nl * k
    IN  <<(nh * k + (low \div 65536)) % 65536, low % 65536>>

\* the limits send_audio_packet and the lite mode hand to _checked_add
Limit16 == <<0, 65535>>
Limit32 == <<65535, 65535>>

\* opus.Encoder.SAMPLES_PER_FRAME: 48000 Hz * 20 ms
SAMPLES_PER_FRAME == 960

\* _checked_add that stays at the limit instead of starting again
CheckedAddSaturates(val, value, limit) ==
    IF WGt(WAdd(val, value), limit) THEN limit ELSE WAdd(val, value)

\* _checked_add that reduces modulo limit + 1
CheckedAddWrapsModulo(val, value, limit) ==
    IF WGt(WAdd(val, value), limit)
    THEN <<(WAdd(val, value)[1]) % (limit[1] + 1), WAdd(val, value)[2]>>
    ELSE WAdd(val, value)

\* _checked_add(attr, value, limit): the new value of the attribute
CheckedAdd(val, value, limit) ==
    IF WGt(WAdd(val, value), limit) THEN <<0, 0>> ELSE WAdd(val, value)

-----------------------------------------------------------------------------
(* Bytes, slices and exceptions.                                           *)

\* the byte values payloads are drawn from: 0xBE and 0xDE are the marker of
\* an RTP header extension, 0 and 1 serve as the bytes of its length field
MARKER0 == 190
MARKER1 == 222
PayloadBytes == {0, 1, MARKER0, MARKER1}

Payloads == UNION {[1..n -> PayloadBytes] : n \in 0..MaxLen}

\* data[k:] for k >= 0
DropFirst(data, k) == SubSeq(data, k + 1, Len(data))
\* data[-k:] for k > 0
TakeLast(data, k) ==
    IF k >= Len(data) THEN data ELSE SubSeq(data, Len(data) - k + 1, Len(data))
\* data[:-k] for k > 0
DropLast(data, k) == SubSeq(data, 1, Len(data) - k)
\* data[:k] for k >= 0
TakeFirst(data, k) == SubSeq(data, 1, IF k > Len(data) THEN Len(data) ELSE k)

Zeros(n) == [i \in 1..n |-> 0]

RECURSIVE SumBytes(_)
SumBytes(s) == IF s = <<>> THEN 0 ELSE (s[1] + SumBytes(Tail(s))) % 256

\* the outcome of a call: a value, or the exception it raised
Return(v) == [exc |-> "none", val |-> v]
Raise(e) == [exc |-> e, val |-> <<>>]

\* struct.pack('>H', v) and struct.pack('>I', v) of a wide integer
PackH(w) == <<w[2] \div 256, w[2] % 256>>
PackI(w) == <<w[1] \div 256, w[1] % 256, w[2] \div 256, w[2] % 256>>

-----------------------------------------------------------------------------
(* nacl.secret.SecretBox: an authenticated cipher.  The ciphertext is a    *)
(* 16-byte authenticator followed by the payload combined with a key       *)
(* stream that depends on the key and the nonce; opening checks the        *)
(* authenticator and fails with CryptoError when it does not match.        *)

NONCE_SIZE == 24
MACBYTES == 16
HEADER_SIZE == 12

\* the key stream byte at position i, for a key and the byte sum of a nonce
KeyStream(key, nsum, i) == (key + nsum + 7 * i) % 256

Authenticator(key, nsum, data) ==
    LET tag == (key + nsum + SumBytes(data) + Len(data)) % 256
    IN  [i \in 1..MACBYTES |-> (tag + i) % 256]

\* box.encrypt(data, nonce).ciphertext
BoxEncrypt(key, data, nonce) ==
    LET nsum == SumBytes(nonce)
    IN  Authenticator(key, nsum, data)
            \o [i \in 1..Len(data) |-> (data[i] + KeyStream(key, nsum, i)) % 256]

\* box.decrypt(data, nonce)
BoxDecrypt(key, data, nonce) ==
    IF Len(data) < MACBYTES
    THEN Raise("CryptoError")
    ELSE LET nsum == SumBytes(nonce)
             body == DropFirst(data, MACBYTES)
             plain == [i \in 1..Len(body) |->
                          (body[i] + 256 - KeyStream(key, nsum, i)) % 256]
         IN  IF Authenticator(key, nsum, plain) = TakeFirst(data, MACBYTES)
             THEN Return(plain)
             ELSE Raise("CryptoError")

\* nacl.utils.random(NONCE_SIZE): the values the random nonce is drawn from
RandomNonces == {[i \in 1..NONCE_SIZE |-> b] : b \in {3, MARKER0}}

-----------------------------------------------------------------------------
(* The RTP packet codec.                                                   *)

supported_modes ==
    {"xsalsa20_poly1305_lite", "xsalsa20_poly1305_suffix", "xsalsa20_poly1305"}

\* _strip_header(data): data[0] and data[1] are read before len(data) is looked at
StripHeader(data) ==
    IF Len(data) = 0 THEN Raise("IndexError")
    ELSE IF data[1] # MARKER0 THEN Return(data)
    ELSE IF Len(data) = 1 THEN Raise("IndexError")
    ELSE IF data[2] = MARKER1 /\ Len(data) > 4
         THEN Return(DropFirst(data, 4 + (data[3] * 256 + data[4]) * 4))
         ELSE Return(data)

\* the 12-byte RTP header _get_voice_packet builds
RtpHeader(seq, ts, ssrc) == <<128, 120>> \o PackH(seq) \o PackI(ts) \o PackI(Wide(ssrc))

\* the 24-byte nonce of the plain mode: the header, zero padded
HeaderNonce(header) == header \o Zeros(NONCE_SIZE - Len(header))
\* the 24-byte nonce of the lite mode: 4 bytes, zero padded
LiteNonce(four) == four \o Zeros(NONCE_SIZE - Len(four))

EncryptPlain(key, header, data) ==
    header \o BoxEncrypt(key, data, HeaderNonce(header))

DecryptPlain(key, header, data) ==
    LET r == BoxDecrypt(key, data, HeaderNonce(header))
    IN  IF r.exc # "none" THEN r ELSE StripHeader(r.val)

EncryptSuffix(key, header, data, nonce) ==
    header \o BoxEncrypt(key, data, nonce) \o nonce

DecryptSuffix(key, header, data) ==
    LET r == BoxDecrypt(key, DropLast(data, NONCE_SIZE), TakeLast(data, NONCE_SIZE))
    IN  IF r.exc # "none" THEN r ELSE StripHeader(r.val)

EncryptLite(key, header, data, counter) ==
    header \o BoxEncrypt(key, data, LiteNonce(PackI(counter))) \o PackI(counter)

DecryptLite(key, header, data) ==
    LET r == BoxDecrypt(key, DropLast(data, 4), LiteNonce(TakeLast(data, 4)))
    IN  IF r.exc # "none" THEN r ELSE StripHeader(r.val)

\* getattr(self, '_encrypt_' + self.mode)(header, data)
EncryptPacket(m, key, header, data, counter, nonce) ==
    CASE m = "xsalsa20_poly1305" -> EncryptPlain(key, header, data)
      [] m = "xsalsa20_poly1305_suffix" -> EncryptSuffix(key, header, data, nonce)
      [] m = "xsalsa20_poly1305_lite" -> EncryptLite(key, header, data, counter)

\* the receiving side: split the 12-byte header off and open the rest
DecryptPacket(m, key, packet) ==
    LET header == TakeFirst(packet, HEADER_SIZE)
        rest == DropFirst(packet, HEADER_SIZE)
    IN  CASE m = "xsalsa20_poly1305" -> DecryptPlain(key, header, rest)
          [] m = "xsalsa20_poly1305_suffix" -> DecryptSuffix(key, header, rest)
          [] m = "xsalsa20_poly1305_lite" -> DecryptLite(key, header, rest)


-----------------------------------------------------------------------------
(* The SSRC registry: two dicts, kept as functions on the keys present.    *)

\* the result of dict.get for a missing key
NoId == 0 - 1

\* user ids are snowflakes (above 2^32), ssrcs are 32-bit: the two never meet
UserIds == {101, 102}
Ssrcs == {1, 2, 3}
\* self.user.id
OwnId == 101

DictGet(d, k) == IF k \in DOMAIN d THEN d[k] ELSE NoId
DictPut(d, k, v) == [x \in (DOMAIN d) \cup {k} |-> IF x = k THEN v ELSE d[x]]

\* _flip_ssrc(query)
FlipSsrc(query) ==
    IF DictGet(idrcs, query) # NoId THEN DictGet(idrcs, query) ELSE DictGet(ssids, query)

\* the ssrc property: self.idrcs.get(self.user.id)
OwnSsrc == DictGet(idrcs, OwnId)

\* _set_ssrc(user_id, ssrc) without the write to the reverse map
SetSsrcForwardOnly(user_id, ssrc) ==
    /\ idrcs' = DictPut(idrcs, user_id, ssrc)
    /\ ssids' = ssids

\* _set_ssrc(user_id, ssrc), and the ssrc setter with user_id = self.user.id
SetSsrcMaps(user_id, ssrc) ==
    /\ idrcs' = DictPut(idrcs, user_id, ssrc)
    /\ ssids' = DictPut(ssids, ssrc, user_id)

SetSsrc(user_id, ssrc) ==
    /\ Len(lastSet) < MaxSets
    /\ SetSsrcMaps(user_id, ssrc)
    /\ lastSet' = Append(lastSet, <<user_id, ssrc>>)
    /\ UNCHANGED <<codecVars, connVars>>

-----------------------------------------------------------------------------
(* The session: what the two signalling callbacks and the control          *)
(* connection set.                                                         *)

Procs == {"main", "poll"}

\* the values the signalling channel and the voice server deliver
Tokens == {"t1", "t2"}
Hosts == {"e1"}
\* data['endpoint']: host:port, with a wss:// prefix or without
Endpoints == {[scheme |-> sch, host |-> h] : sch \in BOOLEAN, h \in Hosts}
\* data.get('endpoint') of a notification without one
NoEndpoint == [scheme |-> FALSE, host |-> None]
SessionIds == {"s1"}
ChannelIds == {"ch1"}
\* close codes of the control connection: normal, forcibly removed, session
\* invalidated, and one other (4006, session no longer valid)
CloseCodes == {1000, 4014, 4015, 4006}
\* what the control handshake negotiates
NegotiatedMode == "xsalsa20_poly1305_lite"
NegotiatedKey == 41
NegotiatedSsrc == 1

NoWs == [state |-> "none", code |-> 0]
OpenWs == [state |-> "open", code |-> 0]
ClosedWs(code) == [state |-> "closed", code |-> code]
NoSocket == [state |-> "none", id |-> 0]

\* endpoint.rpartition(':')[0], without a leading wss://
EndpointHost(ep) == ep.host

Step(op, arg, code, calls) == [op |-> op, arg |-> arg, code |-> code, calls |-> calls]

\* ws.close(code) on the current control connection
CloseWs(w, code) == IF w.state = "none" THEN w ELSE ClosedWs(code)

\* disconnect(force=...): whether the teardown runs
DisconnectRuns(force) == force \/ connected

\* disconnect(force=...): sets connected, ws, socket and registered
Disconnect(force) ==
    IF DisconnectRuns(force)
    THEN /\ connected' = FALSE
         /\ ws' = CloseWs(ws, 1000)
         /\ socket' = IF socket.state = "none" THEN socket
                      ELSE [socket EXCEPT !.state = "closed"]
         /\ registered' = FALSE
    ELSE UNCHANGED <<connected, ws, socket, registered>>

\* the calls disconnect(force=...) makes
DisconnectCalls(force) ==
    IF DisconnectRuns(force)
    THEN {"disconnect", "player.stop", "voice_disconnect", "cleanup"}
            \cup (IF ws.state = "none" THEN {} ELSE {"ws.close"})
            \cup (IF socket.state = "none" THEN {} ELSE {"socket.close"})
    ELSE {"disconnect"}

\* on_voice_state_update that always treats the notification as a live update
OnVoiceStateUpdateAlwaysLive(sid, channel_id) ==
    /\ session_id' = sid
    /\ seen' = seen \cup {"state"}
    /\ IF channel_id = None
       THEN /\ Disconnect(FALSE)
            /\ last' = Step("on_voice_state_update", <<channel_id>>, 0, DisconnectCalls(FALSE))
            /\ UNCHANGED <<channel, voice_state_complete>>
       ELSE /\ channel' = channel_id
            /\ last' = Step("on_voice_state_update", <<channel_id>>, 0, {})
            /\ UNCHANGED <<connected, ws, socket, registered, voice_state_complete>>
    /\ UNCHANGED <<token, endpoint, endpoint_token, server_id, endpoint_ip, nsockets, handshaking,
                   potentially_reconnecting, voice_server_complete, connections, runner,
                   pc, attempt, recon, pollReconnect, opens>>
    /\ UNCHANGED <<codecVars, ssrcVars>>

\* on_voice_state_update(data), data = {session_id, channel_id}
OnVoiceStateUpdate(sid, channel_id) ==
    /\ session_id' = sid
    /\ seen' = seen \cup {"state"}
    /\ IF ~handshaking \/ potentially_reconnecting
       THEN IF channel_id = None
            THEN /\ Disconnect(FALSE)
                 /\ last' = Step("on_voice_state_update", <<channel_id>>, 0,
                                 DisconnectCalls(FALSE))
                 /\ UNCHANGED <<channel, voice_state_complete>>
            ELSE /\ channel' = channel_id
                 /\ last' = Step("on_voice_state_update", <<channel_id>>, 0, {})
                 /\ UNCHANGED <<connected, ws, socket, registered, voice_state_complete>>
       ELSE /\ voice_state_complete' = TRUE
            /\ last' = Step("on_voice_state_update", <<channel_id>>, 0, {})
            /\ UNCHANGED <<channel, connected, ws, socket, registered>>
    /\ UNCHANGED <<token, endpoint, endpoint_token, server_id, endpoint_ip, nsockets, handshaking,
                   potentially_reconnecting, voice_server_complete, connections, runner,
                   pc, attempt, recon, pollReconnect, opens>>
    /\ UNCHANGED <<codecVars, ssrcVars>>

\* the argument of a server-assigned notification, as the history keeps it
ServerArg(tok, ep) == <<tok, ep.host, IF ep.scheme THEN "wss://" ELSE "">>

\* on_voice_server_update that completes the condition whether or not a
\* handshake is in progress
OnVoiceServerUpdateAlwaysCompletes(tok, ep) ==
    /\ IF voice_server_complete
       THEN /\ last' = Step("on_voice_server_update", ServerArg(tok, ep), 0, {"ignored"})
            /\ UNCHANGED <<token, server_id, endpoint, endpoint_token, endpoint_ip, socket,
                           nsockets, ws, voice_server_complete, seen>>
       ELSE /\ token' = tok
            /\ server_id' = "g1"
            /\ IF ep = NoEndpoint \/ tok = None
               THEN /\ last' = Step("on_voice_server_update", ServerArg(tok, ep), 0,
                                    {"awaiting"})
                    /\ UNCHANGED <<endpoint, endpoint_token, endpoint_ip, socket, nsockets,
                                   ws, voice_server_complete, seen>>
               ELSE /\ nsockets < MaxSockets
                    /\ endpoint' = EndpointHost(ep)
                    /\ endpoint_token' = tok
                    /\ endpoint_ip' = None
                    /\ socket' = [state |-> "open", id |-> nsockets + 1]
                    /\ nsockets' = nsockets + 1
                    /\ seen' = seen \cup {"server"}
                    /\ IF FALSE
                       THEN /\ ws' = CloseWs(ws, 4000)
                            /\ last' = Step("on_voice_server_update", ServerArg(tok, ep), 0,
                                            {"socket", IF ws.state = "none"
                                                       THEN "AttributeError" ELSE "ws.close"})
                            /\ UNCHANGED voice_server_complete
                       ELSE /\ voice_server_complete' = TRUE
                            /\ last' = Step("on_voice_server_update", ServerArg(tok, ep), 0,
                                            {"socket"})
                            /\ UNCHANGED ws
    /\ UNCHANGED <<session_id, channel, connected, handshaking, potentially_reconnecting,
                   voice_state_complete, connections, runner, registered,
                   pc, attempt, recon, pollReconnect, opens>>
    /\ UNCHANGED <<codecVars, ssrcVars>>

\* on_voice_server_update without the check for a missing endpoint or token
OnVoiceServerUpdateNoFieldCheck(tok, ep) ==
    /\ IF voice_server_complete
       THEN /\ last' = Step("on_voice_server_update", ServerArg(tok, ep), 0, {"ignored"})
            /\ UNCHANGED <<token, server_id, endpoint, endpoint_token, endpoint_ip, socket,
                           nsockets, ws, voice_server_complete, seen>>
       ELSE /\ token' = tok
            /\ server_id' = "g1"
            /\ IF FALSE
               THEN /\ last' = Step("on_voice_server_update", ServerArg(tok, ep), 0,
                                    {"awaiting"})
                    /\ UNCHANGED <<endpoint, endpoint_token, endpoint_ip, socket, nsockets,
                                   ws, voice_server_complete, seen>>
               ELSE /\ nsockets < MaxSockets
                    /\ endpoint' = EndpointHost(ep)
                    /\ endpoint_token' = tok
                    /\ endpoint_ip' = None
                    /\ socket' = [state |-> "open", id |-> nsockets + 1]
                    /\ nsockets' = nsockets + 1
                    /\ seen' = seen \cup {"server"}
                    /\ IF ~handshaking
                       THEN /\ ws' = CloseWs(ws, 4000)
                            /\ last' = Step("on_voice_server_update", ServerArg(tok, ep), 0,
                                            {"socket", IF ws.state = "none"
                                                       THEN "AttributeError" ELSE "ws.close"})
                            /\ UNCHANGED voice_server_complete
                       ELSE /\ voice_server_complete' = TRUE
                            /\ last' = Step("on_voice_server_update", ServerArg(tok, ep), 0,
                                            {"socket"})
                            /\ UNCHANGED ws
    /\ UNCHANGED <<session_id, channel, connected, handshaking, potentially_reconnecting,
                   voice_state_complete, connections, runner, registered,
                   pc, attempt, recon, pollReconnect, opens>>
    /\ UNCHANGED <<codecVars, ssrcVars>>

\* on_voice_server_update(data), data = {token, guild_id, endpoint}
OnVoiceServerUpdate(tok, ep) ==
    /\ IF voice_server_complete
       THEN /\ last' = Step("on_voice_server_update", ServerArg(tok, ep), 0, {"ignored"})
            /\ UNCHANGED <<token, server_id, endpoint, endpoint_token, endpoint_ip, socket,
                           nsockets, ws, voice_server_complete, seen>>
       ELSE /\ token' = tok
            /\ server_id' = "g1"
            /\ IF ep = NoEndpoint \/ tok = None
               THEN /\ last' = Step("on_voice_server_update", ServerArg(tok, ep), 0,
                                    {"awaiting"})
                    /\ UNCHANGED <<endpoint, endpoint_token, endpoint_ip, socket, nsockets,
                                   ws, voice_server_complete, seen>>
               ELSE /\ nsockets < MaxSockets
                    /\ endpoint' = EndpointHost(ep)
                    /\ endpoint_token' = tok
                    /\ endpoint_ip' = None
                    /\ socket' = [state |-> "open", id |-> nsockets + 1]
                    /\ nsockets' = nsockets + 1
                    /\ seen' = seen \cup {"server"}
                    /\ IF ~handshaking
                       THEN /\ ws' = CloseWs(ws, 4000)
                            /\ last' = Step("on_voice_server_update", ServerArg(tok, ep), 0,
                                            {"socket", IF ws.state = "none"
                                                       THEN "AttributeError" ELSE "ws.close"})
                            /\ UNCHANGED voice_server_complete
                       ELSE /\ voice_server_complete' = TRUE
                            /\ last' = Step("on_voice_server_update", ServerArg(tok, ep), 0,
                                            {"socket"})
                            /\ UNCHANGED ws
    /\ UNCHANGED <<session_id, channel, connected, handshaking, potentially_reconnecting,
                   voice_state_complete, connections, runner, registered,
                   pc, attempt, recon, pollReconnect, opens>>
    /\ UNCHANGED <<codecVars, ssrcVars>>

-----------------------------------------------------------------------------
(* connect(), connect_websocket() and the poll task.  A coroutine runs     *)
(* from one await to the next in one step.                                 *)

\* the state of the poll task connect() leaves behind: `if self._runner is None`
RunnerAfter(p) == IF runner = None THEN "task" ELSE runner
\* connect(): a poll task for every connect() call that gets to the end
CreateTaskAlways == {"create_task"}
\* connect(): the create_task call made under `if self._runner is None`
CreateTaskCalls == IF runner = None THEN {"create_task"} ELSE {}
PollPcAfter(p) == IF runner = None \/ p = "poll" THEN "p_poll" ELSE pc["poll"]

\* connect(reconnect=..., timeout=...) called by the owner of the client: up
\* to the first await (prepare_handshake, then voice_connect)
ConnectCall(reconnect) ==
    /\ pc["main"] = "idle"
    /\ connections < MaxConnections
    /\ voice_state_complete' = FALSE
    /\ voice_server_complete' = FALSE
    /\ handshaking' = TRUE
    /\ connections' = connections + 1
    /\ pc' = [pc EXCEPT !["main"] = "c_wait"]
    /\ attempt' = [attempt EXCEPT !["main"] = 0]
    /\ recon' = [recon EXCEPT !["main"] = reconnect]
    /\ seen' = {}
    /\ opens' = 0
    /\ last' = Step("connect", <<"main">>, 0, {"prepare_handshake", "voice_connect"})
    /\ UNCHANGED <<sessionVars, mediaVars, connected, potentially_reconnecting,
                   runner, registered, pollReconnect>>
    /\ UNCHANGED <<codecVars, ssrcVars>>

\* connect(): a wait that returns as soon as either condition is complete
ConnectWaitDoneFirstCompleted(p) ==
    /\ pc[p] = "c_wait"
    /\ voice_state_complete \/ voice_server_complete
    /\ handshaking' = FALSE
    /\ voice_state_complete' = FALSE
    /\ voice_server_complete' = FALSE
    /\ pc' = [pc EXCEPT ![p] = "c_open"]
    /\ opens' = opens + 1
    /\ last' = Step("connect_websocket", <<p>>, 0, {"finish_handshake", "from_client"})
    /\ UNCHANGED <<sessionVars, mediaVars, connected, potentially_reconnecting,
                   connections, runner, registered, attempt, recon, pollReconnect, seen>>
    /\ UNCHANGED <<codecVars, ssrcVars>>

\* connect(): sane_wait_for returned; finish_handshake, then connect_websocket
\* up to its first await
ConnectWaitDone(p) ==
    /\ pc[p] = "c_wait"
    /\ voice_state_complete /\ voice_server_complete
    /\ handshaking' = FALSE
    /\ voice_state_complete' = FALSE
    /\ voice_server_complete' = FALSE
    /\ pc' = [pc EXCEPT ![p] = "c_open"]
    /\ opens' = opens + 1
    /\ last' = Step("connect_websocket", <<p>>, 0, {"finish_handshake", "from_client"})
    /\ UNCHANGED <<sessionVars, mediaVars, connected, potentially_reconnecting,
                   connections, runner, registered, attempt, recon, pollReconnect, seen>>
    /\ UNCHANGED <<codecVars, ssrcVars>>

\* connect(): the timeout handler without force=True
ConnectWaitTimeoutUnforced(p) ==
    /\ pc[p] = "c_wait"
    /\ ~(voice_state_complete /\ voice_server_complete)
    /\ Disconnect(FALSE)
    /\ pc' = [pc EXCEPT ![p] = IF p = "main" THEN "c_raised" ELSE "p_poll"]
    /\ last' = Step("connect_timeout", <<p>>, 0,
                    DisconnectCalls(FALSE) \cup {"raise TimeoutError"})
    /\ UNCHANGED <<sessionVars, endpoint_ip, nsockets, handshaking,
                   potentially_reconnecting, voice_state_complete, voice_server_complete,
                   connections, runner, attempt, recon, pollReconnect, seen, opens>>
    /\ UNCHANGED <<codecVars, ssrcVars>>

\* connect(): sane_wait_for raised asyncio.TimeoutError; disconnect(force=True)
\* and raise: to the owner, or to the poll loop, which logs it and continues
ConnectWaitTimeout(p) ==
    /\ pc[p] = "c_wait"
    /\ ~(voice_state_complete /\ voice_server_complete)
    /\ Disconnect(TRUE)
    /\ pc' = [pc EXCEPT ![p] = IF p = "main" THEN "c_raised" ELSE "p_poll"]
    /\ last' = Step("connect_timeout", <<p>>, 0,
                    DisconnectCalls(TRUE) \cup {"raise TimeoutError"})
    /\ UNCHANGED <<sessionVars, endpoint_ip, nsockets, handshaking,
                   potentially_reconnecting, voice_state_complete, voice_server_complete,
                   connections, runner, attempt, recon, pollReconnect, seen, opens>>
    /\ UNCHANGED <<codecVars, ssrcVars>>

\* connect_websocket(): DiscordVoiceWebSocket.from_client returned a connection;
\* self._connected.clear(), then the first ws.poll_event()
WsOpenOk(p) ==
    /\ pc[p] \in {"c_open", "r_open", "rc_open"}
    /\ connected' = FALSE
    /\ pc' = [pc EXCEPT ![p] = CASE pc[p] = "c_open" -> "c_secret"
                                 [] pc[p] = "r_open" -> "r_secret"
                                 [] pc[p] = "rc_open" -> "rc_secret"]
    /\ last' = Step("from_client", <<p>>, 0, {})
    /\ UNCHANGED <<sessionVars, mediaVars, handshaking, potentially_reconnecting,
                   voice_state_complete, voice_server_complete, connections, runner,
                   registered, attempt, recon, pollReconnect, seen, opens>>
    /\ UNCHANGED <<codecVars, ssrcVars>>

\* the control handshake delivered the media address, our ssrc, the mode and
\* the secret key (the READY and SESSION_DESCRIPTION messages), and
\* connect_websocket sets the connected flag and returns the connection
MediaDelivered ==
    /\ endpoint_ip' = "ip"
    /\ SetSsrcMaps(OwnId, NegotiatedSsrc)
    /\ mode' = NegotiatedMode
    /\ secret_key' = NegotiatedKey
    /\ connected' = TRUE
    /\ ws' = OpenWs
    /\ UNCHANGED <<sequence, timestamp, lite_nonce, wire, opened, source, nsent, lastSet>>

\* connect(): connect_websocket returned; break, and start the poll task
\* unless there is one
ConnectOpened(p) ==
    /\ pc[p] = "c_secret"
    /\ MediaDelivered
    /\ runner' = RunnerAfter(p)
    /\ pollReconnect' = IF runner = None THEN recon[p] ELSE pollReconnect
    /\ pc' = [pc EXCEPT !["poll"] = PollPcAfter(p),
                        !["main"] = IF p = "main" THEN "c_done" ELSE pc["main"]]
    /\ last' = Step("connected", <<p>>, 0, CreateTaskCalls)
    /\ UNCHANGED <<sessionVars, socket, nsockets, handshaking, potentially_reconnecting,
                   voice_state_complete, voice_server_complete, connections,
                   registered, attempt, recon, seen, opens>>

\* connect(): connect_websocket raised ConnectionClosed or asyncio.TimeoutError
ConnectOpenFailed(p) ==
    /\ pc[p] \in {"c_open", "c_secret"}
    /\ IF recon[p]
       THEN /\ pc' = [pc EXCEPT ![p] = "c_backoff"]
            /\ last' = Step("connect_failed", <<p>>, 0, {"sleep"})
            /\ UNCHANGED <<connected, ws, socket, registered>>
       ELSE /\ Disconnect(TRUE)
            /\ pc' = [pc EXCEPT ![p] = "c_raised"]
            /\ last' = Step("connect_failed", <<p>>, 0,
                            DisconnectCalls(TRUE) \cup {"raise"})
    /\ UNCHANGED <<sessionVars, endpoint_ip, nsockets, handshaking,
                   potentially_reconnecting, voice_state_complete, voice_server_complete,
                   connections, runner, attempt, recon, pollReconnect, seen, opens>>
    /\ UNCHANGED <<codecVars, ssrcVars>>

\* connect() with a loop of six rounds
ConnectRetrySixRounds(p) ==
    /\ pc[p] = "c_backoff"
    /\ IF attempt[p] + 1 < 6
       THEN /\ connections < MaxConnections
            /\ voice_state_complete' = FALSE
            /\ voice_server_complete' = FALSE
            /\ handshaking' = TRUE
            /\ connections' = connections + 1
            /\ pc' = [pc EXCEPT ![p] = "c_wait"]
            /\ attempt' = [attempt EXCEPT ![p] = attempt[p] + 1]
            /\ seen' = {}
            /\ opens' = 0
            /\ last' = Step("connect_retry", <<p>>, 0,
                            {"voice_disconnect", "prepare_handshake", "voice_connect"})
            /\ UNCHANGED <<runner, pollReconnect>>
       ELSE /\ runner' = RunnerAfter(p)
            /\ pollReconnect' = IF runner = None THEN recon[p] ELSE pollReconnect
            /\ pc' = [pc EXCEPT !["poll"] = PollPcAfter(p),
                                !["main"] = IF p = "main" THEN "c_done" ELSE pc["main"]]
            /\ last' = Step("connect_exhausted", <<p>>, 0,
                            {"voice_disconnect"} \cup CreateTaskCalls)
            /\ UNCHANGED <<voice_state_complete, voice_server_complete, handshaking,
                           connections, attempt, seen, opens>>
    /\ UNCHANGED <<sessionVars, mediaVars, connected, potentially_reconnecting,
                   registered, recon>>
    /\ UNCHANGED <<codecVars, ssrcVars>>

\* connect(): after the back-off, voice_disconnect and the next round of the
\* loop; after the fifth round the loop ends and connect() goes on to the
\* poll task
ConnectRetry(p) ==
    /\ pc[p] = "c_backoff"
    /\ IF attempt[p] + 1 < 5
       THEN /\ connections < MaxConnections
            /\ voice_state_complete' = FALSE
            /\ voice_server_complete' = FALSE
            /\ handshaking' = TRUE
            /\ connections' = connections + 1
            /\ pc' = [pc EXCEPT ![p] = "c_wait"]
            /\ attempt' = [attempt EXCEPT ![p] = attempt[p] + 1]
            /\ seen' = {}
            /\ opens' = 0
            /\ last' = Step("connect_retry", <<p>>, 0,
                            {"voice_disconnect", "prepare_handshake", "voice_connect"})
            /\ UNCHANGED <<runner, pollReconnect>>
       ELSE /\ runner' = RunnerAfter(p)
            /\ pollReconnect' = IF runner = None THEN recon[p] ELSE pollReconnect
            /\ pc' = [pc EXCEPT !["poll"] = PollPcAfter(p),
                                !["main"] = IF p = "main" THEN "c_done" ELSE pc["main"]]
            /\ last' = Step("connect_exhausted", <<p>>, 0,
                            {"voice_disconnect"} \cup CreateTaskCalls)
            /\ UNCHANGED <<voice_state_complete, voice_server_complete, handshaking,
                           connections, attempt, seen, opens>>
    /\ UNCHANGED <<sessionVars, mediaVars, connected, potentially_reconnecting,
                   registered, recon>>
    /\ UNCHANGED <<codecVars, ssrcVars>>

-----------------------------------------------------------------------------
(* poll_voice_ws(), potential_resume() and potential_reconnect().          *)

\* the voice server (or the network) closes the control connection
WsClosedByServer(code) ==
    /\ ws.state = "open"
    /\ ws' = ClosedWs(code)
    /\ last' = Step("ws_closed", <<>>, code, {})
    /\ UNCHANGED <<sessionVars, endpoint_ip, socket, nsockets, flagVars, taskVars,
                   seen, opens>>
    /\ UNCHANGED <<codecVars, ssrcVars>>

\* poll_voice_ws(): self.ws is None, so self.ws.poll_event() raises AttributeError
PollCrash ==
    /\ pc["poll"] = "p_poll"
    /\ ws.state = "none"
    /\ pc' = [pc EXCEPT !["poll"] = "p_crashed"]
    /\ last' = Step("poll_crashed", <<>>, 0, {"AttributeError"})
    /\ UNCHANGED <<sessionVars, mediaVars, flagVars, connections, runner, registered,
                   attempt, recon, pollReconnect, seen, opens>>
    /\ UNCHANGED <<codecVars, ssrcVars>>

\* poll_voice_ws(): close code 1000 handled as close code 4015 is
PollNormalCloseResumes ==
    /\ pc["poll"] = "p_poll"
    /\ ws.state = "closed" /\ ws.code = 1000
    /\ connected' = FALSE
    /\ potentially_reconnecting' = TRUE
    /\ pc' = [pc EXCEPT !["poll"] = "r_open"]
    /\ last' = Step("poll_closed", <<>>, ws.code, {"potential_resume", "from_client"})
    /\ UNCHANGED <<sessionVars, mediaVars, handshaking, voice_state_complete,
                   voice_server_complete, connections, runner, registered,
                   attempt, recon, pollReconnect, seen, opens>>
    /\ UNCHANGED <<codecVars, ssrcVars>>

\* poll_voice_ws(): ConnectionClosed with code 1000: disconnect() and break
PollNormalClose ==
    /\ pc["poll"] = "p_poll"
    /\ ws.state = "closed" /\ ws.code = 1000
    /\ Disconnect(FALSE)
    /\ pc' = [pc EXCEPT !["poll"] = "p_exit"]
    /\ last' = Step("poll_closed", <<>>, ws.code, DisconnectCalls(FALSE))
    /\ UNCHANGED <<sessionVars, endpoint_ip, nsockets, handshaking,
                   potentially_reconnecting, voice_state_complete, voice_server_complete,
                   connections, runner, attempt, recon, pollReconnect, seen, opens>>
    /\ UNCHANGED <<codecVars, ssrcVars>>

\* potential_resume() that leaves the connected flag as it is
PollResumeKeepsConnected ==
    /\ pc["poll"] = "p_poll"
    /\ ws.state = "closed" /\ ws.code = 4015
    /\ potentially_reconnecting' = TRUE
    /\ pc' = [pc EXCEPT !["poll"] = "r_open"]
    /\ last' = Step("poll_closed", <<>>, ws.code, {"potential_resume", "from_client"})
    /\ UNCHANGED <<sessionVars, mediaVars, connected, handshaking, voice_state_complete,
                   voice_server_complete, connections, runner, registered,
                   attempt, recon, pollReconnect, seen, opens>>
    /\ UNCHANGED <<codecVars, ssrcVars>>

\* poll_voice_ws(): code 4015: potential_resume() up to its first await
PollResume ==
    /\ pc["poll"] = "p_poll"
    /\ ws.state = "closed" /\ ws.code = 4015
    /\ connected' = FALSE
    /\ potentially_reconnecting' = TRUE
    /\ pc' = [pc EXCEPT !["poll"] = "r_open"]
    /\ last' = Step("poll_closed", <<>>, ws.code, {"potential_resume", "from_client"})
    /\ UNCHANGED <<sessionVars, mediaVars, handshaking, voice_state_complete,
                   voice_server_complete, connections, runner, registered,
                   attempt, recon, pollReconnect, seen, opens>>
    /\ UNCHANGED <<codecVars, ssrcVars>>

\* potential_resume(): connect_websocket(resume=True) returned; the poll loop
\* continues
ResumeOk ==
    /\ pc["poll"] = "r_secret"
    /\ MediaDelivered
    /\ potentially_reconnecting' = FALSE
    /\ pc' = [pc EXCEPT !["poll"] = "p_poll"]
    /\ last' = Step("resumed", <<>>, 0, {})
    /\ UNCHANGED <<sessionVars, socket, nsockets, handshaking, voice_state_complete,
                   voice_server_complete, connections, runner, registered,
                   attempt, recon, pollReconnect, seen, opens>>

\* potential_resume() without the finally clause on the failure path
ResumeFailedKeepsFlag ==
    /\ pc["poll"] \in {"r_open", "r_secret"}
    /\ potentially_reconnecting' = potentially_reconnecting
    /\ Disconnect(FALSE)
    /\ pc' = [pc EXCEPT !["poll"] = "p_exit"]
    /\ last' = Step("resume_failed", <<>>, 0, DisconnectCalls(FALSE))
    /\ UNCHANGED <<sessionVars, endpoint_ip, nsockets, handshaking,
                   voice_state_complete, voice_server_complete,
                   connections, runner, attempt, recon, pollReconnect, seen, opens>>
    /\ UNCHANGED <<codecVars, ssrcVars>>

\* potential_resume(): connect_websocket raised; return False, and the poll
\* loop calls disconnect() and breaks
ResumeFailed ==
    /\ pc["poll"] \in {"r_open", "r_secret"}
    /\ potentially_reconnecting' = FALSE
    /\ Disconnect(FALSE)
    /\ pc' = [pc EXCEPT !["poll"] = "p_exit"]
    /\ last' = Step("resume_failed", <<>>, 0, DisconnectCalls(FALSE))
    /\ UNCHANGED <<sessionVars, endpoint_ip, nsockets, handshaking,
                   voice_state_complete, voice_server_complete,
                   connections, runner, attempt, recon, pollReconnect, seen, opens>>
    /\ UNCHANGED <<codecVars, ssrcVars>>

\* poll_voice_ws(): code 4014: potential_reconnect() up to its first await
PollReconnect ==
    /\ pc["poll"] = "p_poll"
    /\ ws.state = "closed" /\ ws.code = 4014
    /\ connections < MaxConnections
    /\ connected' = FALSE
    /\ voice_state_complete' = FALSE
    /\ voice_server_complete' = FALSE
    /\ handshaking' = TRUE
    /\ connections' = connections + 1
    /\ potentially_reconnecting' = TRUE
    /\ pc' = [pc EXCEPT !["poll"] = "rc_wait"]
    /\ seen' = {}
    /\ opens' = 0
    /\ last' = Step("poll_closed", <<>>, ws.code,
                    {"potential_reconnect", "prepare_handshake"})
    /\ UNCHANGED <<sessionVars, mediaVars, runner, registered,
                   attempt, recon, pollReconnect>>
    /\ UNCHANGED <<codecVars, ssrcVars>>

\* potential_reconnect(): the server-assignment wait returned; finish_handshake,
\* then connect_websocket up to its first await
ReconnectWaitDone ==
    /\ pc["poll"] = "rc_wait"
    /\ voice_server_complete
    /\ handshaking' = FALSE
    /\ voice_state_complete' = FALSE
    /\ voice_server_complete' = FALSE
    /\ potentially_reconnecting' = FALSE
    /\ pc' = [pc EXCEPT !["poll"] = "rc_open"]
    /\ opens' = opens + 1
    /\ last' = Step("connect_websocket", <<"poll">>, 0, {"finish_handshake", "from_client"})
    /\ UNCHANGED <<sessionVars, mediaVars, connected, connections, runner, registered,
                   attempt, recon, pollReconnect, seen>>
    /\ UNCHANGED <<codecVars, ssrcVars>>

\* potential_reconnect(): the wait timed out; disconnect(force=True), return
\* False, and the poll loop calls disconnect() (nothing is connected) and breaks
ReconnectWaitTimeout ==
    /\ pc["poll"] = "rc_wait"
    /\ ~voice_server_complete
    /\ potentially_reconnecting' = FALSE
    /\ Disconnect(TRUE)
    /\ pc' = [pc EXCEPT !["poll"] = "p_exit"]
    /\ last' = Step("reconnect_timeout", <<>>, 0, DisconnectCalls(TRUE))
    /\ UNCHANGED <<sessionVars, endpoint_ip, nsockets, handshaking,
                   voice_state_complete, voice_server_complete,
                   connections, runner, attempt, recon, pollReconnect, seen, opens>>
    /\ UNCHANGED <<codecVars, ssrcVars>>

\* potential_reconnect(): connect_websocket returned; the poll loop continues
ReconnectOk ==
    /\ pc["poll"] = "rc_secret"
    /\ MediaDelivered
    /\ pc' = [pc EXCEPT !["poll"] = "p_poll"]
    /\ last' = Step("reconnected", <<>>, 0, {})
    /\ UNCHANGED <<sessionVars, socket, nsockets, handshaking, potentially_reconnecting,
                   voice_state_complete, voice_server_complete, connections, runner,
                   registered, attempt, recon, pollReconnect, seen, opens>>

\* potential_reconnect(): connect_websocket raised; return False, and the poll
\* loop calls disconnect() and breaks
ReconnectFailed ==
    /\ pc["poll"] \in {"rc_open", "rc_secret"}
    /\ Disconnect(FALSE)
    /\ pc' = [pc EXCEPT !["poll"] = "p_exit"]
    /\ last' = Step("reconnect_failed", <<>>, 0, DisconnectCalls(FALSE))
    /\ UNCHANGED <<sessionVars, endpoint_ip, nsockets, handshaking,
                   potentially_reconnecting, voice_state_complete, voice_server_complete,
                   connections, runner, attempt, recon, pollReconnect, seen, opens>>
    /\ UNCHANGED <<codecVars, ssrcVars>>

\* poll_voice_ws() that backs off and reconnects whatever reconnect is
PollOtherAlwaysRetries(timedOut) ==
    /\ pc["poll"] = "p_poll"
    /\ IF timedOut THEN ws.state = "open"
       ELSE ws.state = "closed" /\ ws.code \notin {1000, 4014, 4015}
    /\ IF FALSE
       THEN /\ Disconnect(FALSE)
            /\ pc' = [pc EXCEPT !["poll"] = "p_raised"]
            /\ last' = Step("poll_failed", <<>>, ws.code,
                            DisconnectCalls(FALSE) \cup {"raise"})
       ELSE /\ connected' = FALSE
            /\ pc' = [pc EXCEPT !["poll"] = "p_backoff"]
            /\ last' = Step("poll_failed", <<>>, ws.code, {"sleep"})
            /\ UNCHANGED <<ws, socket, registered>>
    /\ UNCHANGED <<sessionVars, endpoint_ip, nsockets, handshaking,
                   potentially_reconnecting, voice_state_complete, voice_server_complete,
                   connections, runner, attempt, recon, pollReconnect, seen, opens>>
    /\ UNCHANGED <<codecVars, ssrcVars>>

\* poll_voice_ws(): any other close code, or asyncio.TimeoutError from
\* poll_event: disconnect() and raise, or clear the connected flag and back off
PollOther(timedOut) ==
    /\ pc["poll"] = "p_poll"
    /\ IF timedOut THEN ws.state = "open"
       ELSE ws.state = "closed" /\ ws.code \notin {1000, 4014, 4015}
    /\ IF ~pollReconnect
       THEN /\ Disconnect(FALSE)
            /\ pc' = [pc EXCEPT !["poll"] = "p_raised"]
            /\ last' = Step("poll_failed", <<>>, ws.code,
                            DisconnectCalls(FALSE) \cup {"raise"})
       ELSE /\ connected' = FALSE
            /\ pc' = [pc EXCEPT !["poll"] = "p_backoff"]
            /\ last' = Step("poll_failed", <<>>, ws.code, {"sleep"})
            /\ UNCHANGED <<ws, socket, registered>>
    /\ UNCHANGED <<sessionVars, endpoint_ip, nsockets, handshaking,
                   potentially_reconnecting, voice_state_complete, voice_server_complete,
                   connections, runner, attempt, recon, pollReconnect, seen, opens>>
    /\ UNCHANGED <<codecVars, ssrcVars>>

\* poll_voice_ws(): after the back-off, connect(reconnect=True, timeout=...)
\* up to its first await
PollReenter ==
    /\ pc["poll"] = "p_backoff"
    /\ connections < MaxConnections
    /\ voice_state_complete' = FALSE
    /\ voice_server_complete' = FALSE
    /\ handshaking' = TRUE
    /\ connections' = connections + 1
    /\ pc' = [pc EXCEPT !["poll"] = "c_wait"]
    /\ attempt' = [attempt EXCEPT !["poll"] = 0]
    /\ recon' = [recon EXCEPT !["poll"] = TRUE]
    /\ seen' = {}
    /\ opens' = 0
    /\ last' = Step("connect", <<"poll">>, 0, {"prepare_handshake", "voice_connect"})
    /\ UNCHANGED <<sessionVars, mediaVars, connected, potentially_reconnecting,
                   runner, registered, pollReconnect>>
    /\ UNCHANGED <<codecVars, ssrcVars>>

-----------------------------------------------------------------------------
(* The client after __init__, and the client after a successful connect(). *)

FreshSession ==
    /\ token = None
    /\ endpoint = None
    /\ endpoint_token = None
    /\ server_id = None
    /\ session_id = None
    /\ channel = "ch0"
    /\ endpoint_ip = None
    /\ socket = NoSocket
    /\ nsockets = 0
    /\ ws = NoWs
    /\ connected = FALSE
    /\ handshaking = FALSE
    /\ potentially_reconnecting = FALSE
    /\ voice_state_complete = FALSE
    /\ voice_server_complete = FALSE
    /\ connections = 0
    /\ runner = None
    /\ registered = TRUE
    /\ pc = [p \in Procs |-> IF p = "main" THEN "idle" ELSE "none"]
    /\ attempt = [p \in Procs |-> 0]
    /\ recon = [p \in Procs |-> FALSE]
    /\ pollReconnect = FALSE
    /\ last = Step("init", <<>>, 0, {})
    /\ seen = {}
    /\ opens = 0

ConnectedSession ==
    /\ token = "t1"
    /\ endpoint = "e1"
    /\ endpoint_token = "t1"
    /\ server_id = "g1"
    /\ session_id = "s1"
    /\ channel = "ch0"
    /\ endpoint_ip = "ip"
    /\ socket = [state |-> "open", id |-> 1]
    /\ nsockets = 1
    /\ ws = OpenWs
    /\ connected = TRUE
    /\ handshaking = FALSE
    /\ potentially_reconnecting = FALSE
    /\ voice_state_complete = FALSE
    /\ voice_server_complete = FALSE
    /\ connections = 1
    /\ runner = "task"
    /\ registered = TRUE
    /\ pc = [p \in Procs |-> IF p = "main" THEN "c_done" ELSE "p_poll"]
    /\ attempt = [p \in Procs |-> 0]
    /\ recon = [p \in Procs |-> FALSE]
    /\ pollReconnect = FALSE
    /\ last = Step("connected", <<"main">>, 0, {"create_task"})
    /\ seen = {"state", "server"}
    /\ opens = 1

-----------------------------------------------------------------------------
(* send_audio_packet and the receiving side.                               *)

\* numbers of earlier send_audio_packet calls a run of the codec starts from:
\* a fresh client, one about to roll the sequence over, and one about to roll
\* the timestamp over
StartCalls == {0, 65534, 4473923}

\* the calls after which the timestamp is back at 0: 2^32 / 960 = 2^26 / 15,
\* rounded down, plus the call that resets
TimestampPeriod == (67108864 \div 15) + 1

NotSent == [status |-> "none", data |-> <<>>, packet |-> <<>>]
NotOpened == [exc |-> "unset", val |-> <<>>]

\* what stops send_audio_packet(data) before the datagram leaves: the
\* exception raised by _get_voice_packet or by self.socket.sendto, "dropped"
\* for the BlockingIOError the function swallows, "sent" when nothing does
SendOutcome(blocked) ==
    CASE OwnSsrc = NoId -> "struct.error"
      [] OwnSsrc # NoId /\ mode = None -> "TypeError"
      [] OwnSsrc # NoId /\ mode # None /\ mode \notin supported_modes -> "AttributeError"
      [] OTHER -> CASE socket.state = "none" -> "AttributeError"
                    [] socket.state = "closed" -> "OSError"
                    [] socket.state = "open" /\ endpoint_ip = None -> "TypeError"
                    [] OTHER -> IF blocked THEN "dropped" ELSE "sent"

\* send_audio_packet(data); blocked: sendto raises BlockingIOError; nonce:
\* what nacl.utils.random returns (suffix mode only)
SendAudioPacket(data, nonce, blocked) ==
    LET seq == CheckedAdd(sequence, 1, Limit16)
        sealed == OwnSsrc # NoId /\ mode \in supported_modes
        outcome == SendOutcome(blocked)
    IN  /\ \E n0 \in StartCalls : nsent - n0 \in 0..(MaxSends - 1)
        /\ sequence' = seq
        /\ lite_nonce' = IF sealed /\ mode = "xsalsa20_poly1305_lite"
                         THEN CheckedAdd(lite_nonce, 1, Limit32)
                         ELSE lite_nonce
        /\ wire' = IF outcome = "sent"
                   THEN [status |-> "sent", data |-> data,
                         packet |-> EncryptPacket(mode, secret_key,
                                                  RtpHeader(seq, timestamp, OwnSsrc),
                                                  data, lite_nonce, nonce)]
                   ELSE [status |-> outcome, data |-> data, packet |-> <<>>]
        /\ timestamp' = IF outcome \in {"sent", "dropped"}
                        THEN CheckedAdd(timestamp, SAMPLES_PER_FRAME, Limit32)
                        ELSE timestamp
        /\ nsent' = nsent + 1
        /\ opened' = NotOpened
        /\ UNCHANGED <<mode, secret_key, source>>
        /\ UNCHANGED <<ssrcVars, connVars>>

\* the receiver opens the datagram with _decrypt_<mode>(header, rest)
ReceivePacket ==
    /\ wire.status = "sent"
    /\ opened = NotOpened
    /\ opened' = DecryptPacket(mode, secret_key, wire.packet)
    /\ UNCHANGED <<sequence, timestamp, lite_nonce, mode, secret_key, wire, source, nsent>>
    /\ UNCHANGED <<ssrcVars, connVars>>

\* a connected client that has made n0 send_audio_packet calls
CodecInit ==
    /\ \E n0 \in StartCalls :
          /\ nsent = n0
          /\ sequence = Wide(n0 % 65536)
          /\ timestamp = WMulMod32(n0, SAMPLES_PER_FRAME)
          /\ mode \in supported_modes
          /\ lite_nonce = IF mode = "xsalsa20_poly1305_lite" THEN Wide(n0) ELSE <<0, 0>>
    /\ secret_key = NegotiatedKey
    /\ source \in Payloads
    /\ wire = NotSent
    /\ opened = NotOpened
    /\ idrcs = DictPut(<<>>, OwnId, NegotiatedSsrc)
    /\ ssids = DictPut(<<>>, NegotiatedSsrc, OwnId)
    /\ lastSet = <<>>
    /\ ConnectedSession

CodecNext ==
    \/ \E nonce \in (IF mode = "xsalsa20_poly1305_suffix"
                      THEN RandomNonces ELSE {Zeros(NONCE_SIZE)}),
          blocked \in BOOLEAN :
          SendAudioPacket(source, nonce, blocked)
    \/ ReceivePacket

SpecCodec == CodecInit /\ [][CodecNext]_vars

\* the client in the back-off sleep of the poll loop: the control connection
\* was closed with another code, the connected flag is cleared, the socket
\* is still open
BackoffSession ==
    /\ token = "t1"
    /\ endpoint = "e1"
    /\ endpoint_token = "t1"
    /\ server_id = "g1"
    /\ session_id = "s1"
    /\ channel = "ch0"
    /\ endpoint_ip = "ip"
    /\ socket = [state |-> "open", id |-> 1]
    /\ nsockets = 1
    /\ ws = ClosedWs(4006)
    /\ connected = FALSE
    /\ handshaking = FALSE
    /\ potentially_reconnecting = FALSE
    /\ voice_state_complete = FALSE
    /\ voice_server_complete = FALSE
    /\ connections = 1
    /\ runner = "task"
    /\ registered = TRUE
    /\ pc = [p \in Procs |-> IF p = "main" THEN "c_done" ELSE "p_backoff"]
    /\ attempt = [p \in Procs |-> 0]
    /\ recon = [p \in Procs |-> IF p = "main" THEN TRUE ELSE FALSE]
    /\ pollReconnect = TRUE
    /\ last = Step("poll_failed", <<>>, 4006, {"sleep"})
    /\ seen = {"state", "server"}
    /\ opens = 1

\* the callers of send_audio_packet: a client that never connected, a
\* connected one, and one that lost its control connection
SendInit ==
    /\ sequence = <<0, 0>>
    /\ timestamp = <<0, 0>>
    /\ lite_nonce = <<0, 0>>
    /\ nsent = 0
    /\ source \in Payloads
    /\ wire = NotSent
    /\ opened = NotOpened
    /\ lastSet = <<>>
    /\ \/ /\ FreshSession
          /\ mode = None
          /\ secret_key = 0
          /\ idrcs = <<>>
          /\ ssids = <<>>
       \/ /\ ConnectedSession \/ BackoffSession
          /\ mode \in supported_modes
          /\ secret_key = NegotiatedKey
          /\ idrcs = DictPut(<<>>, OwnId, NegotiatedSsrc)
          /\ ssids = DictPut(<<>>, NegotiatedSsrc, OwnId)

SpecSend == SendInit /\ [][CodecNext]_vars

\* values of _lite_nonce a run in lite mode starts from: a fresh counter, one
\* about to carry into the upper half, and the last two values before 2^32
LiteStarts == {<<0, 0>>, <<0, 65535>>, <<65535, 65534>>, <<65535, 65535>>}

\* a connected client in lite mode
LiteInit ==
    /\ sequence = <<0, 0>>
    /\ timestamp = <<0, 0>>
    /\ lite_nonce \in LiteStarts
    /\ nsent = 0
    /\ mode = "xsalsa20_poly1305_lite"
    /\ secret_key = NegotiatedKey
    /\ source \in Payloads
    /\ wire = NotSent
    /\ opened = NotOpened
    /\ idrcs = DictPut(<<>>, OwnId, NegotiatedSsrc)
    /\ ssids = DictPut(<<>>, NegotiatedSsrc, OwnId)
    /\ lastSet = <<>>
    /\ ConnectedSession

SpecLite == LiteInit /\ [][CodecNext]_vars

\* a client whose registry is empty
SsrcInit ==
    /\ sequence = <<0, 0>>
    /\ timestamp = <<0, 0>>
    /\ lite_nonce = <<0, 0>>
    /\ mode = None
    /\ secret_key = 0
    /\ source = <<>>
    /\ wire = NotSent
    /\ opened = NotOpened
    /\ nsent = 0
    /\ idrcs = <<>>
    /\ ssids = <<>>
    /\ lastSet = <<>>
    /\ FreshSession

SsrcNext == \E user_id \in UserIds, ssrc \in Ssrcs : SetSsrc(user_id, ssrc)

SpecSsrc == SsrcInit /\ [][SsrcNext]_vars


-----------------------------------------------------------------------------
(* The client from construction on: the callbacks, connect() and the poll  *)
(* task.                                                                   *)

Init ==
    /\ FreshSession
    /\ sequence = <<0, 0>>
    /\ timestamp = <<0, 0>>
    /\ lite_nonce = <<0, 0>>
    /\ mode = None
    /\ secret_key = 0
    /\ wire = NotSent
    /\ opened = NotOpened
    /\ source = <<>>
    /\ nsent = 0
    /\ idrcs = <<>>
    /\ ssids = <<>>
    /\ lastSet = <<>>

Next ==
    \/ \E sid \in SessionIds, channel_id \in ChannelIds \cup {None} :
          OnVoiceStateUpdate(sid, channel_id)
    \/ \E tok \in Tokens \cup {None}, ep \in Endpoints \cup {NoEndpoint} :
          OnVoiceServerUpdate(tok, ep)
    \/ \E reconnect \in BOOLEAN : ConnectCall(reconnect)
    \/ \E p \in Procs : ConnectWaitDone(p)
    \/ \E p \in Procs : ConnectWaitTimeout(p)
    \/ \E p \in Procs : WsOpenOk(p)
    \/ \E p \in Procs : ConnectOpened(p)
    \/ \E p \in Procs : ConnectOpenFailed(p)
    \/ \E p \in Procs : ConnectRetry(p)
    \/ \E code \in CloseCodes : WsClosedByServer(code)
    \/ PollCrash
    \/ PollNormalClose
    \/ PollResume
    \/ ResumeOk
    \/ ResumeFailed
    \/ PollReconnect
    \/ ReconnectWaitDone
    \/ ReconnectWaitTimeout
    \/ ReconnectOk
    \/ ReconnectFailed
    \/ \E timedOut \in BOOLEAN : PollOther(timedOut)
    \/ PollReenter

Spec == Init /\ [][Next]_vars

-----------------------------------------------------------------------------
(* Claims about the packet counters, the codec and the registry.           *)

\* C1 as stated: after N send_audio_packet calls from a fresh client, sequence
\* is N mod 65536 and timestamp is (N * SAMPLES_PER_FRAME) mod 2^32.
C1_CountersModular ==
    /\ sequence = Wide(nsent % 65536)
    /\ timestamp = WMulMod32(nsent, SAMPLES_PER_FRAME)

\* C1 as amended: sequence is N mod 65536, and timestamp is
\* (N mod 4473925) * SAMPLES_PER_FRAME: the call that would take it past
\* 2^32 - 1 sets it to 0 instead of to the remainder modulo 2^32.
C1_CountersReset ==
    /\ sequence = Wide(nsent % 65536)
    /\ timestamp = WMulMod32(nsent % TimestampPeriod, SAMPLES_PER_FRAME)

\* C1 witness: the call that rolls the timestamp over has been made.
C1_TimestampRolledOver ==
    /\ nsent = TimestampPeriod
    /\ timestamp = <<0, 0>>
    /\ wire.status # "none"

\* C2 as stated: for each mode and every payload p, opening the packet that
\* _get_voice_packet(p) produced with the matching _decrypt_<mode> returns p.
C2_RoundTrip ==
    opened # NotOpened => opened = Return(wire.data)

\* C3 as stated: right after _set_ssrc(u, s), _flip_ssrc(u) is s and
\* _flip_ssrc(s) is u; and when the call before it was _set_ssrc(u, s0) with
\* s0 # s, _flip_ssrc(s0) no longer returns u.
C3_FlipAfterSet ==
    LET n == Len(lastSet)
    IN  /\ n >= 1 =>
              /\ FlipSsrc(lastSet[n][1]) = lastSet[n][2]
              /\ FlipSsrc(lastSet[n][2]) = lastSet[n][1]
        /\ (n >= 2 /\ lastSet[n - 1][1] = lastSet[n][1] /\ lastSet[n - 1][2] # lastSet[n][2])
              => FlipSsrc(lastSet[n - 1][2]) # lastSet[n][1]

\* C3 as amended: right after _set_ssrc(u, s), _flip_ssrc(u) is s and
\* _flip_ssrc(s) is u; and when the call before it was _set_ssrc(u, s0) with
\* s0 # s, the reverse entry of s0 is left in place: _flip_ssrc(s0) still
\* returns u.
C3_FlipAfterSetStale ==
    LET n == Len(lastSet)
    IN  /\ n >= 1 =>
              /\ FlipSsrc(lastSet[n][1]) = lastSet[n][2]
              /\ FlipSsrc(lastSet[n][2]) = lastSet[n][1]
        /\ (n >= 2 /\ lastSet[n - 1][1] = lastSet[n][1] /\ lastSet[n - 1][2] # lastSet[n][2])
              => FlipSsrc(lastSet[n - 1][2]) = lastSet[n][1]

\* C3 witness: an identity has just been reassigned to another stream id.
C3_Reassigned ==
    LET n == Len(lastSet)
    IN  /\ n >= 2
        /\ lastSet[n - 1][1] = lastSet[n][1]
        /\ lastSet[n - 1][2] # lastSet[n][2]
        /\ DictGet(idrcs, lastSet[n][1]) = lastSet[n][2]


-----------------------------------------------------------------------------
(* Claims about the handshake and the poll loop.                           *)

\* a well-formed server-assigned payload: token and endpoint present
WellFormed(arg) == arg[1] # None /\ arg[2] # None

\* the poll task is running: the client has an established session it supervises
PollTaskActive == pc["poll"] \notin {"none", "p_exit", "p_raised", "p_crashed"}

\* C4 as stated: a well-formed server-assigned payload delivered a second
\* time in a row is a no-op: no session field or completion flag changes, the
\* socket is not replaced and the control connection is not closed.  (Taken
\* here for a client that has a control connection.)
C4_SecondDeliveryNoOp ==
    [][(/\ last.op = "on_voice_server_update"
        /\ last'.op = "on_voice_server_update"
        /\ last'.arg = last.arg
        /\ WellFormed(last.arg)
        /\ ws.state # "none")
       => /\ UNCHANGED <<sessionVars, mediaVars, flagVars>>
          /\ "ws.close" \notin last'.calls]_vars

\* C5 as stated: on_voice_state_update with channel_id = null, delivered
\* while not handshaking or while potentially reconnecting, leaves the
\* client torn down: connected cleared, control connection closed, the
\* client removed by cleanup() and its socket closed.  (Taken here for a
\* client whose poll task is running.)
C5_NullChannelTearsDown ==
    (/\ last.op = "on_voice_state_update"
     /\ last.arg = <<None>>
     /\ ~handshaking \/ potentially_reconnecting
     /\ PollTaskActive)
    => /\ ~connected
       /\ ws.state # "open"
       /\ ~registered
       /\ socket.state # "open"

\* C6: on_voice_state_update delivered while handshaking and not potentially
\* reconnecting sets the session-assignment flag, leaves the channel as it
\* is for any channel_id, and does not call disconnect.
C6_HandshakeStateUpdate ==
    [][(/\ last'.op = "on_voice_state_update"
        /\ handshaking
        /\ ~potentially_reconnecting)
       => /\ voice_state_complete'
          /\ channel' = channel
          /\ "disconnect" \notin last'.calls
          /\ UNCHANGED <<connected, ws, socket, registered>>]_vars

\* C6 witness: a null channel was delivered during a handshake and completed
\* the session condition.
C6_NullChannelInHandshake ==
    /\ last.op = "on_voice_state_update"
    /\ last.arg = <<None>>
    /\ handshaking /\ ~potentially_reconnecting
    /\ voice_state_complete
    /\ pc["main"] = "c_wait"

\* C7: when the poll loop observes close code 1000 it calls disconnect and
\* the loop exits; it calls none of potential_resume, potential_reconnect
\* and connect.
C7_NormalCloseOnlyDisconnects ==
    (last.op = "poll_closed" /\ last.code = 1000)
    => /\ pc["poll"] = "p_exit"
       /\ "disconnect" \in last.calls
       /\ last.calls \cap {"potential_resume", "potential_reconnect", "connect",
                           "from_client", "prepare_handshake", "voice_connect"} = {}
       /\ ~handshaking => opens <= 1

\* C7 witness: the poll loop observed code 1000 on a connected client and the
\* teardown ran.
C7_NormalCloseObserved ==
    /\ last.op = "poll_closed" /\ last.code = 1000
    /\ "cleanup" \in last.calls

\* C8 as stated: when the resume after close code 4015 fails, the poll loop
\* ends and the teardown is carried out: control connection closed, leave
\* request sent, cleanup() run, UDP socket closed.
C8_FailedResumeTearsDown ==
    (last.op = "resume_failed")
    => /\ pc["poll"] = "p_exit"
       /\ ws.state = "closed"
       /\ {"voice_disconnect", "cleanup", "socket.close"} \subseteq last.calls
       /\ socket.state = "closed"

\* C9: in a connect() attempt, connect_websocket is invoked exactly once and
\* only after a session-assigned and a well-formed server-assigned
\* notification of that attempt have both been observed.
C9_OneOpenAfterBoth ==
    /\ \A p \in Procs : pc[p] = "c_wait" => opens = 0
    /\ \A p \in Procs : pc[p] \in {"c_open", "c_secret"}
          => opens = 1 /\ {"state", "server"} \subseteq seen
    /\ last.op = "connected" => opens = 1 /\ {"state", "server"} \subseteq seen

\* C9 witness: connect() of the owner succeeded, after one open.
C9_Connected ==
    /\ last.op = "connected"
    /\ last.arg = <<"main">>
    /\ opens = 1
    /\ connected

\* C10: when the wait for the two conditions times out in connect(), the
\* call runs disconnect(force=True), raises the timeout to its caller, makes
\* no further handshake attempt and does not start the poll task, whatever
\* reconnect is.
C10_TimeoutIsTerminal ==
    [][(last'.op = "connect_timeout")
       => /\ {"disconnect", "voice_disconnect", "cleanup", "raise TimeoutError"}
                \subseteq last'.calls
          /\ ws.state # "none" => "ws.close" \in last'.calls
          /\ socket.state # "none" => "socket.close" \in last'.calls
          /\ ~connected' /\ ws'.state # "open" /\ socket'.state # "open" /\ ~registered'
          /\ last'.calls \cap {"prepare_handshake", "voice_connect", "from_client",
                               "create_task"} = {}
          /\ connections' = connections
          /\ runner' = runner
          /\ last'.arg = <<"main">> => pc'["main"] = "c_raised" /\ pc'["poll"] = pc["poll"]
          /\ last'.arg = <<"poll">> => pc'["poll"] = "p_poll"]_vars

\* C10 witness: connect(reconnect=True) of the owner timed out and raised.
C10_TimedOutWithReconnect ==
    /\ last.op = "connect_timeout"
    /\ last.arg = <<"main">>
    /\ recon["main"]
    /\ pc["main"] = "c_raised"
    /\ runner = None


-----------------------------------------------------------------------------
(* Claims about the poll task, the teardown and the fields the sender reads. *)

\* potential_resume or potential_reconnect is in progress
InResumeOrReconnect == pc["poll"] \in {"r_open", "r_secret", "rc_wait", "rc_open", "rc_secret"}

\* C11: over any sequence of connect() calls, the poll loop's own included,
\* at most one poll task runs: create_task is called only when no poll task
\* was ever started, and a poll task exists exactly when _runner is set.
C11_OnePollTask ==
    [][/\ "create_task" \in last'.calls
          => (runner = None /\ pc["poll"] = "none" /\ runner' # None)
       /\ (runner' = None) <=> (pc'["poll"] = "none")
       /\ runner # None => runner' = runner]_vars

\* C11 witness: a connect() made by the poll loop itself succeeded and
\* started no second poll task.
C11_NestedConnectDone ==
    /\ last.op = "connected"
    /\ last.arg = <<"poll">>
    /\ "create_task" \notin last.calls
    /\ pc["poll"] = "p_poll"

\* C12 as stated: when connect(reconnect=True) has used up its 5 attempts
\* because every open failed, the call raises to its caller and starts no
\* poll task; create_task is called only by an attempt whose
\* connect_websocket succeeded.
C12_ExhaustionRaises ==
    /\ (last.op = "connect_exhausted" /\ last.arg = <<"main">>)
          => (pc["main"] = "c_raised" /\ runner = None)
    /\ "create_task" \in last.calls => last.op = "connected"

\* C13: while potential_resume or potential_reconnect is in progress the
\* connected flag is false; after a failed attempt it is false; after a
\* successful one it is true and the handshake of that attempt delivered
\* the secret key.
C13_ConnectedSuppressed ==
    /\ InResumeOrReconnect => ~connected
    /\ last.op \in {"resume_failed", "reconnect_failed", "reconnect_timeout"} => ~connected
    /\ last.op \in {"resumed", "reconnected"}
          => (connected /\ secret_key = NegotiatedKey /\ ws = OpenWs)

\* C13 witness: a resume succeeded and the flag was restored.
C13_Resumed ==
    /\ last.op = "resumed"
    /\ connected
    /\ pc["poll"] = "p_poll"

\* C14 as stated: once a disconnect teardown has run (from a callback, from
\* connect's timeout path or from the poll loop), the poll task is no longer
\* running, so it does not poll the closed control connection again.
C14_TeardownStopsPollTask ==
    "cleanup" \in last.calls => ~PollTaskActive

\* C15 as stated: while the connected flag stays set, the UDP socket, the
\* media address and the secret key the sender reads are those of the
\* negotiation that set the flag: no step replaces the socket or clears the
\* address while connected is set.
C15_MediaFieldsStable ==
    [][(connected /\ connected')
       => UNCHANGED <<socket, endpoint_ip, secret_key, mode>>]_vars

\* connect_websocket is being called by this step
OpensControlConnection == "from_client" \in last'.calls

\* C16 as stated: whenever connect, potential_reconnect or potential_resume
\* opens the control connection, the token and the endpoint host of the
\* session were taken from the same server-assigned notification.
C16_TokenEndpointPaired ==
    [][OpensControlConnection => token = endpoint_token]_vars

\* C17 as stated: send_audio_packet on a client that is not connected raises
\* ClientException, transmits nothing and leaves sequence and timestamp as
\* they were.
C17_SendNeedsConnection ==
    (~connected /\ nsent > 0)
    => /\ wire.status = "ClientException"
       /\ sequence = <<0, 0>>
       /\ timestamp = <<0, 0>>

\* C18: in lite mode every encryption appends the current 4-byte counter
\* and then advances it by exactly 1, going to 0 only from 2^32 - 1, so the
\* appended value differs for each of 2^32 consecutive encryptions.
C18_LiteNonceCounts ==
    [][(mode = "xsalsa20_poly1305_lite" /\ nsent' = nsent + 1)
       => /\ lite_nonce' = IF lite_nonce = Limit32 THEN <<0, 0>> ELSE WAdd(lite_nonce, 1)
          /\ lite_nonce' # lite_nonce
          /\ wire'.status = "sent"
                => TakeLast(wire'.packet, 4) = PackI(lite_nonce)]_vars

\* C18 witness: the value 2^32 - 1 was used and the counter is back at 0.
C18_LiteNonceWrapped ==
    /\ mode = "xsalsa20_poly1305_lite"
    /\ wire.status = "sent"
    /\ TakeLast(wire.packet, 4) = <<255, 255, 255, 255>>
    /\ lite_nonce = <<0, 0>>

\* the identity of the latest _set_ssrc call that assigned the stream id s
LastAssignee(s) ==
    LET I == {i \in 1..Len(lastSet) : lastSet[i][2] = s}
    IN  lastSet[CHOOSE i \in I : \A j \in I : j <= i][1]

\* C19 as stated: after any sequence of _set_ssrc calls, for every pair
\* (u, s) of the forward map idrcs, the reverse map ssids maps s to u.
C19_ForwardHasReverse ==
    \A u \in DOMAIN idrcs : DictGet(ssids, idrcs[u]) = u

\* C19 as amended: for every pair (u, s) of the forward map, the reverse map
\* has an entry for s, and it holds the identity most recently assigned s:
\* u itself unless another identity was assigned the same stream id later.
C19_ReverseHoldsLastAssignee ==
    \A u \in DOMAIN idrcs :
        /\ idrcs[u] \in DOMAIN ssids
        /\ ssids[idrcs[u]] = LastAssignee(idrcs[u])

\* C19 witness: two identities hold the same stream id.
C19_SharedStreamId ==
    /\ UserIds \subseteq DOMAIN idrcs
    /\ \A u \in UserIds : idrcs[u] = idrcs[OwnId]
    /\ ssids[idrcs[OwnId]] # OwnId

\* C20: a well-formed server-assigned notification that is not ignored
\* closes the control connection with code 4000 and leaves the completion
\* flag clear when handshaking is false; when handshaking is true it sets
\* the flag and leaves the control connection alone.
C20_ServerUpdateBranches ==
    [][(/\ last'.op = "on_voice_server_update"
        /\ WellFormed(last'.arg)
        /\ ~voice_server_complete)
       => IF ~handshaking
          THEN /\ ~voice_server_complete'
               /\ ws.state # "none" => (ws' = ClosedWs(4000) /\ "ws.close" \in last'.calls)
          ELSE /\ voice_server_complete'
               /\ ws' = ws
               /\ "ws.close" \notin last'.calls]_vars

\* C20 witness: the notification arrived outside a handshake and the control
\* connection was closed.
C20_ClosedOutsideHandshake ==
    /\ last.op = "on_voice_server_update"
    /\ "ws.close" \in last.calls
    /\ ws = ClosedWs(4000)
    /\ ~handshaking
    /\ ~voice_server_complete


-----------------------------------------------------------------------------
(* Claims about incomplete notifications, the reconnect paths, the retry   *)
(* budget and the packet helpers.                                          *)

\* C21: a server-assigned notification without endpoint or without token
\* does not set the completion flag, does not create or replace the UDP
\* socket and does not close the control connection; a connect() attempt
\* that got no well-formed notification has not completed the condition and
\* leaves its wait only through the timeout.
C21_IncompleteNotificationStalls ==
    [][/\ (last'.op = "on_voice_server_update" /\ ~WellFormed(last'.arg))
          => /\ UNCHANGED <<voice_server_complete, socket, nsockets, ws,
                            endpoint, endpoint_ip, connected>>
             /\ last'.calls \cap {"socket", "ws.close", "AttributeError"} = {}
       /\ \A p \in Procs :
             (pc[p] = "c_wait" /\ "server" \notin seen)
                => /\ ~voice_server_complete
                   /\ pc'[p] # "c_wait" => (last'.op = "connect_timeout" /\ pc'[p] # "c_open")]_vars

\* C21 witness: connect() timed out after the session-assigned notification
\* and a notification with a token but no endpoint.
C21_TimedOutAwaitingEndpoint ==
    /\ last.op = "connect_timeout"
    /\ seen = {"state"}
    /\ token \in Tokens
    /\ endpoint = None

\* C22 as stated: after close code 4014, potential_reconnect opens the
\* control connection once a well-formed server-assigned notification has
\* arrived, with or without a session-assigned one; when the wait times out
\* or the open fails the teardown is carried out and the poll loop exits;
\* on success the loop polls again.
C22_ReconnectOutcomes ==
    /\ pc["poll"] \in {"rc_open", "rc_secret"} => "server" \in seen
    /\ last.op \in {"reconnect_timeout", "reconnect_failed"}
          => /\ pc["poll"] = "p_exit"
             /\ {"voice_disconnect", "cleanup"} \subseteq last.calls
             /\ ~registered
             /\ socket.state # "open"
    /\ last.op = "reconnected" => (pc["poll"] = "p_poll" /\ connected)

C24_AtMostFiveAttempts ==
    [][\A p \in Procs :
          /\ attempt'[p] \in 0..4
          /\ (last'.arg = <<p>> /\ last'.op = "connect")
                => (attempt'[p] = 0 /\ opens' = 0)
          /\ (last'.arg = <<p>> /\ last'.op = "connect_retry")
                => (attempt'[p] = attempt[p] + 1 /\ opens' = 0)
          /\ (last'.arg = <<p>> /\ last'.op = "connect_websocket" /\ pc'[p] = "c_open")
                => (opens' = 1 /\ attempt'[p] = attempt[p])
          /\ (last'.arg = <<p>> /\ last'.op = "connect_failed" /\ ~recon[p])
                => /\ attempt[p] = 0
                   /\ {"disconnect", "voice_disconnect", "cleanup", "raise"}
                         \subseteq last'.calls
                   /\ pc'[p] = "c_raised"
                   /\ connections' = connections
          /\ pc[p] = "c_raised" => pc'[p] = "c_raised"]_vars

\* C24 witness: connect(reconnect=True) has used its fifth attempt.
C24_FifthAttemptFailed ==
    /\ last.op = "connect_failed"
    /\ last.arg = <<"main">>
    /\ attempt["main"] = 4
    /\ recon["main"]

\* C25 as stated: every send_audio_packet call, one in which building or
\* sealing the packet raises included, advances sequence and timestamp
\* together: sequence by 1 and timestamp by SAMPLES_PER_FRAME.
C25_CountersAdvanceTogether ==
    [][nsent' = nsent + 1
       => /\ sequence' = CheckedAdd(sequence, 1, Limit16)
          /\ timestamp' = CheckedAdd(timestamp, SAMPLES_PER_FRAME, Limit32)]_vars

\* C26 as stated: _strip_header, applied to the decrypted payload d, never
\* raises; it returns d unchanged when d does not begin with 0xBE 0xDE
\* (payloads of length 0 and 1 included), and d[4 + 4*L:] when it does, L
\* being the big-endian 16-bit value at offset 2.
C26_StripHeaderTotal ==
    opened # NotOpened
    => LET d == wire.data
       IN  opened = IF Len(d) >= 4 /\ d[1] = MARKER0 /\ d[2] = MARKER1
                    THEN Return(DropFirst(d, 4 + (d[3] * 256 + d[4]) * 4))
                    ELSE Return(d)

\* C27 as stated: a server-assigned notification that takes the
\* not-handshaking branch while connect() is between finish_handshake and
\* the return of connect_websocket finds a control connection to close.
C27_CloseHasConnection ==
    (last.op = "on_voice_server_update" /\ pc["main"] \in {"c_open", "c_secret"})
    => "AttributeError" \notin last.calls

\* C28: potentially_reconnecting is true only while potential_resume or
\* potential_reconnect is in progress, and false after each of their exits:
\* success, timeout of the server-assignment wait, failed open.
C28_FlagOnlyWhileInProgress ==
    /\ potentially_reconnecting => InResumeOrReconnect
    /\ last.op \in {"resumed", "resume_failed", "reconnected", "reconnect_failed",
                    "reconnect_timeout"}
          => (~potentially_reconnecting /\ ~InResumeOrReconnect)

\* C28 witness: a failed resume has returned.
C28_ResumeFailedReturned ==
    /\ last.op = "resume_failed"
    /\ ~potentially_reconnecting
    /\ pc["poll"] = "p_exit"


====
